---- MODULE Spec2Model ----
(***************************************************************************)
(* Model of cfn_sphere/connector/cloudformation.py:                        *)
(*   CloudFormationTemplate (template loader),                             *)
(*   CloudFormation.create_stack / wait_to_complete (stack provisioner),   *)
(*   alone and as two interleaved invocations, and                         *)
(*   CloudFormation.get_stacks_dict (stack registry).                      *)
(***************************************************************************)
EXTENDS Integers, Sequences, FiniteSets, TLC

(***************************************************************************)
(* Bounds of the model.                                                    *)
(***************************************************************************)
MaxStacks == 2        \* most stacks describe_stacks returns
ClockStep == 300      \* seconds between two readings of the shared clock
MaxClock == 600       \* the shared clock is followed up to this reading
MaxFetchLen == 2      \* longest event list one describe_stack_events returns
NumEventIds == 2      \* distinct event ids the provider hands out
MaxSlowFetches == 1   \* describe_stack_events calls that take measurable time
SlowFetch == 25       \* duration of such a call, in seconds
MaxEventfulFetches == 2  \* only the first calls of an invocation return events

(***************************************************************************)
(* Program constants.                                                      *)
(***************************************************************************)
DefaultTimeout == 600     \* wait_to_complete(self, stack_name, timeout=600)
PollInterval == 10        \* time.sleep(10)
Sentinel == "AWS::CloudFormation::Stack"

StackNames == {"web"}
Timeouts == {-10, 0, 20}       \* timeouts of direct wait_to_complete calls
EventIds == 1..NumEventIds
ParameterSets == { <<"Env", "prod">> }

(***************************************************************************)
(* str.endswith                                                            *)
(***************************************************************************)
EndsWith(s, suffix) ==
    /\ Len(s) >= Len(suffix)
    /\ SubSeq(s, Len(s) - Len(suffix) + 1, Len(s)) = suffix

(***************************************************************************)
(* Events of the provider.  same_object records whether the str object in  *)
(* event.resource_type is the very object of the literal the code compares *)
(* it to with `is`: an implementation-dependent fact (interning), possible *)
(* only when the two strings are equal.                                    *)
(***************************************************************************)
EventKinds ==
    { [resource_type |-> Sentinel, same_object |-> TRUE,
       resource_status |-> "CREATE_COMPLETE"],
      [resource_type |-> Sentinel, same_object |-> FALSE,
       resource_status |-> "CREATE_COMPLETE"],
      [resource_type |-> "AWS::EC2::Instance", same_object |-> FALSE,
       resource_status |-> "CREATE_COMPLETE"],
      [resource_type |-> "AWS::EC2::Instance", same_object |-> FALSE,
       resource_status |-> "CREATE_FAILED"],
      [resource_type |-> "AWS::EC2::Instance", same_object |-> FALSE,
       resource_status |-> "CREATE_IN_PROGRESS"],
      [resource_type |-> Sentinel, same_object |-> FALSE,
       resource_status |-> "ROLLBACK_IN_PROGRESS"],
      [resource_type |-> Sentinel, same_object |-> TRUE,
       resource_status |-> "ROLLBACK_COMPLETE"],
      [resource_type |-> "AWS::EC2::Instance", same_object |-> FALSE,
       resource_status |-> "UPDATE_ROLLBACK_FAILED"] }

Events ==
    { [event_id |-> i, resource_type |-> k.resource_type,
       same_object |-> k.same_object, resource_status |-> k.resource_status] :
      i \in EventIds, k \in EventKinds }

FetchResults == UNION { [1..n -> Events] : n \in 0..MaxFetchLen }

Range(s) == { s[i] : i \in 1..Len(s) }

(***************************************************************************)
(* Strings: character access, str.lower, str.startswith.                   *)
(***************************************************************************)
Char(s, i) == IF i >= 1 /\ i <= Len(s) THEN SubSeq(s, i, i) ELSE ""

UpperCase == "ABCDEFGHIJKLMNOPQRSTUVWXYZ"
LowerCase == "abcdefghijklmnopqrstuvwxyz"

LowerChar(c) ==
    IF \E k \in 1..Len(UpperCase) : Char(UpperCase, k) = c
    THEN Char(LowerCase, CHOOSE k \in 1..Len(UpperCase) : Char(UpperCase, k) = c)
    ELSE c

RECURSIVE LowerFrom(_, _)
LowerFrom(s, i) ==
    IF i > Len(s) THEN "" ELSE LowerChar(Char(s, i)) \o LowerFrom(s, i + 1)

\* Faulty variant: the case is kept.
LowerNone(s) == s

Lower(s) == LowerFrom(s, 1)

StartsWith(s, prefix) ==
    /\ Len(s) >= Len(prefix)
    /\ SubSeq(s, 1, Len(prefix)) = prefix

(***************************************************************************)
(* os.path.isabs and os.path.join (posixpath).                             *)
(***************************************************************************)
IsAbs(path) == StartsWith(path, "/")

PathJoin(a, b) ==
    IF StartsWith(b, "/") THEN b
    ELSE IF a = "" \/ EndsWith(a, "/") THEN a \o b
    ELSE a \o "/" \o b

(***************************************************************************)
(* Python truth value of None, of a str and of a parsed JSON document      *)
(* (documents are held as their whitespace-free JSON text).                *)
(***************************************************************************)
Truthy(v) == v \notin {"None", "", "{}", "[]", "\"\""}

(***************************************************************************)
(* json.loads, for the JSON subset of the digit 1, strings of lower-case   *)
(* letters, arrays and objects.  The result is the document as the         *)
(* whitespace-free text, or a ValueError (ok = FALSE).                     *)
(***************************************************************************)
ParseFail == [ok |-> FALSE, next |-> 0, doc |-> ""]

RECURSIVE SkipWs(_, _)
SkipWs(s, i) == IF Char(s, i) = " " THEN SkipWs(s, i + 1) ELSE i

RECURSIVE ParseString(_, _, _)
ParseString(s, i, acc) ==
    LET c == Char(s, i) IN
    IF c = "\"" THEN [ok |-> TRUE, next |-> i + 1, doc |-> "\"" \o acc \o "\""]
    ELSE IF \E k \in 1..Len(LowerCase) : Char(LowerCase, k) = c
         THEN ParseString(s, i + 1, acc \o c)
    ELSE ParseFail

RECURSIVE ParseValue(_, _), ParseElements(_, _, _), ParseMembers(_, _, _)
ParseValue(s, i) ==
    LET c == Char(s, i) IN
    IF c = "1" THEN [ok |-> TRUE, next |-> i + 1, doc |-> "1"]
    ELSE IF c = "\"" THEN ParseString(s, i + 1, "")
    ELSE IF c = "["
         THEN LET j == SkipWs(s, i + 1) IN
              IF Char(s, j) = "]"
              THEN [ok |-> TRUE, next |-> j + 1, doc |-> "[]"]
              ELSE ParseElements(s, j, "[")
    ELSE IF c = "{"
         THEN LET j == SkipWs(s, i + 1) IN
              IF Char(s, j) = "}"
              THEN [ok |-> TRUE, next |-> j + 1, doc |-> "{}"]
              ELSE ParseMembers(s, j, "{")
    ELSE ParseFail

ParseElements(s, i, acc) ==
    LET v == ParseValue(s, i) IN
    IF ~v.ok THEN ParseFail
    ELSE LET j == SkipWs(s, v.next) IN
         IF Char(s, j) = ","
         THEN ParseElements(s, SkipWs(s, j + 1), acc \o v.doc \o ",")
         ELSE IF Char(s, j) = "]"
              THEN [ok |-> TRUE, next |-> j + 1, doc |-> acc \o v.doc \o "]"]
         ELSE ParseFail

ParseMembers(s, i, acc) ==
    IF Char(s, i) # "\"" THEN ParseFail
    ELSE LET k == ParseString(s, i + 1, "") IN
         IF ~k.ok THEN ParseFail
         ELSE LET j == SkipWs(s, k.next) IN
              IF Char(s, j) # ":" THEN ParseFail
              ELSE LET v == ParseValue(s, SkipWs(s, j + 1)) IN
                   IF ~v.ok THEN ParseFail
                   ELSE LET m == SkipWs(s, v.next)
                            item == acc \o k.doc \o ":" \o v.doc IN
                        IF Char(s, m) = ","
                        THEN ParseMembers(s, SkipWs(s, m + 1), item \o ",")
                        ELSE IF Char(s, m) = "}"
                             THEN [ok |-> TRUE, next |-> m + 1, doc |-> item \o "}"]
                        ELSE ParseFail

JsonLoads(s) ==
    LET v == ParseValue(s, SkipWs(s, 1)) IN
    IF v.ok /\ SkipWs(s, v.next) = Len(s) + 1
    THEN [ok |-> TRUE, doc |-> v.doc]
    ELSE [ok |-> FALSE, doc |-> ""]

(***************************************************************************)
(* json.dumps of a document: separators ", " and ": ".                     *)
(***************************************************************************)
RECURSIVE DumpsFrom(_, _)
DumpsFrom(doc, i) ==
    IF i > Len(doc) THEN ""
    ELSE (IF Char(doc, i) = "," THEN ", "
          ELSE IF Char(doc, i) = ":" THEN ": "
          ELSE Char(doc, i)) \o DumpsFrom(doc, i + 1)

JsonDumps(doc) == DumpsFrom(doc, 1)

VARIABLES
    pc,            \* position of the call: idle, while, fetch, for, done
    entry,         \* the method the caller invoked
    stack_name,    \* stack_name argument of the call
    submitted,     \* names sent to conn.create_stack, in order
    timeout,       \* wait_to_complete's timeout argument
    start,         \* wait_to_complete's start
    now,           \* time.time()
    seen_events,   \* wait_to_complete's seen_events list
    events,        \* events of the current fetch not yet iterated over
    state,         \* loop state: WAITING, SUCCEEDED, FAILED, TIMED_OUT
    wait_result,   \* value returned by wait_to_complete
    create_result, \* value returned by create_stack
    raised,        \* exception that left the call the caller made
    logged,        \* create_stack's "Could not create stack" error was logged
    fetched,       \* stack names passed to describe_stack_events (set)
    fetches,       \* number of describe_stack_events calls
    sleeps,        \* number of time.sleep calls
    slow,          \* number of describe_stack_events calls that took time
    response,      \* what conn.create_stack did: accepted, or the exception
    poll_error,    \* exception describe_stack_events raised, if any
    classified,    \* ids of the events taken through the if/elif chain
    delivered,     \* ids of the events the for loop has iterated over
    ref_state,     \* loop state of a reference loop fed first occurrences only
    informational, \* every event fetched so far is an informational one
    lpc,           \* position of CloudFormationTemplate.__init__
    t_url,         \* template.url
    t_config_dir,  \* template.config_dir
    t_body,        \* template.body
    l_url,         \* local url of _fs_get_template
    l_raised,      \* exception that left CloudFormationTemplate.__init__
    l_logged,      \* path named by the loader's logger.error message
    opened,        \* paths handed to open(), in order
    returned_body, \* value get_template_body returned last
    stacks,        \* self.stacks of the CloudFormation object
    rpc,           \* position of get_stacks_dict: idle, loop, done
    r_iter,        \* stacks the for loop of get_stacks_dict has not reached
    stacks_dict,   \* stacks_dict of get_stacks_dict
    frames,        \* per concurrent invocation: its position and locals
    seen_lists,    \* the list objects the invocations' seen_events refer to
    c_now          \* time.time() of the concurrent invocations

pvars == <<pc, entry, stack_name, submitted, timeout, start, now, seen_events,
           events, state, wait_result, create_result, raised, logged, fetched,
           fetches, sleeps, slow, response, poll_error, classified, delivered,
           ref_state, informational>>

lvars == <<lpc, t_url, t_config_dir, t_body, l_url, l_raised, l_logged, opened,
           returned_body>>

rvars == <<stacks, rpc, r_iter, stacks_dict>>

cvars == <<frames, seen_lists, c_now>>

vars == <<pvars, lvars, rvars, cvars>>

InitProvisioner ==
    /\ pc = "idle"
    /\ entry = "none"
    /\ stack_name = "none"
    /\ submitted = <<>>
    /\ timeout = 0
    /\ start = 0
    /\ now = 0
    /\ seen_events = <<>>
    /\ events = <<>>
    /\ state = "WAITING"
    /\ wait_result = "pending"
    /\ create_result = "pending"
    /\ raised = "none"
    /\ logged = FALSE
    /\ fetched = {}
    /\ fetches = 0
    /\ sleeps = 0
    /\ slow = 0
    /\ response = "none"
    /\ poll_error = "none"
    /\ classified = <<>>
    /\ delivered = {}
    /\ ref_state = "WAITING"
    /\ informational = TRUE


(***************************************************************************)
(* The built template Spec starts from: CloudFormationTemplate(url, body)  *)
(* with a body supplied by the caller, so that __init__ loads nothing.     *)
(***************************************************************************)
TemplateGiven ==
    /\ lpc = "ready"
    /\ t_url = "web.json"
    /\ t_config_dir = "None"
    /\ t_body = "{\"a\":1}"
    /\ l_url = "None"
    /\ l_raised = "none"
    /\ l_logged = "none"
    /\ opened = <<>>
    /\ returned_body = "None"

(***************************************************************************)
(* A CloudFormation object whose account holds no stack, with no call of   *)
(* get_stacks_dict under way.                                              *)
(***************************************************************************)
RegistryIdle ==
    /\ stacks = <<>>
    /\ rpc = "idle"
    /\ r_iter = <<>>
    /\ stacks_dict = <<>>

(***************************************************************************)
(* No concurrent invocation has started.  An invocation's frame holds its  *)
(* position, its arguments and locals, and the reference to its            *)
(* seen_events list; reference 0 stands for "not assigned yet".            *)
(***************************************************************************)
Invocations == {1, 2}
ConcurrentStacks == <<"web", "db">>

IdleFrame(i) ==
    [pc |-> "idle", stack_name |-> ConcurrentStacks[i], timeout |-> 0,
     start |-> 0, wake |-> 0, seen_ref |-> 0, events |-> <<>>,
     state |-> "WAITING", delivered |-> {}, ref_state |-> "WAITING"]

ThreadsIdle ==
    /\ frames = [i \in Invocations |-> IdleFrame(i)]
    /\ seen_lists = [r \in {0} \cup Invocations |-> <<>>]
    /\ c_now = 0

Init == InitProvisioner /\ TemplateGiven /\ RegistryIdle /\ ThreadsIdle

(***************************************************************************)
(* Line 109: event.event_id not in seen_events                             *)
(***************************************************************************)
\* Faulty variant: no membership test.
UnseenAlways(event) == TRUE

Unseen(event) == event.event_id \notin Range(seen_events)

(***************************************************************************)
(* Line 107: time.time() < (start + timeout)                               *)
(***************************************************************************)
\* Faulty variant: <= in place of <.
WithinBudgetInclusive == now <= start + timeout

WithinBudget == now < start + timeout

(***************************************************************************)
(* Line 99: except BotoServerError                                         *)
(***************************************************************************)
\* Faulty variants: no except clause; a bare except.
CaughtNever(exc) == FALSE

CaughtAlways(exc) == TRUE

Caught(exc) == exc = "BotoServerError"

(***************************************************************************)
(* The if/elif chain of wait_to_complete, lines 111-127: the loop state    *)
(* after one event that was not seen before.  `is` compares object         *)
(* identity, which same_object records.                                    *)
(***************************************************************************)
\* Faulty variant: the resource type is not tested.
ClassifyAnyComplete(event) ==
    IF EndsWith(event.resource_status, "CREATE_COMPLETE") THEN "SUCCEEDED"
    ELSE IF EndsWith(event.resource_status, "ROLLBACK_COMPLETE") THEN "FAILED"
    ELSE IF EndsWith(event.resource_status, "ROLLBACK_FAILED") THEN "FAILED"
    ELSE "WAITING"

\* Faulty variant: ROLLBACK_COMPLETE does not return.
ClassifyRollbackContinues(event) ==
    IF /\ event.same_object
       /\ EndsWith(event.resource_status, "CREATE_COMPLETE")
    THEN "SUCCEEDED"
    ELSE IF EndsWith(event.resource_status, "ROLLBACK_FAILED") THEN "FAILED"
    ELSE "WAITING"

\* Faulty variant: CREATE_FAILED returns False.
ClassifyCreateFailedEnds(event) ==
    IF /\ event.same_object
       /\ EndsWith(event.resource_status, "CREATE_COMPLETE")
    THEN "SUCCEEDED"
    ELSE IF EndsWith(event.resource_status, "CREATE_COMPLETE") THEN "WAITING"
    ELSE IF EndsWith(event.resource_status, "CREATE_FAILED") THEN "FAILED"
    ELSE IF EndsWith(event.resource_status, "ROLLBACK_IN_PROGRESS") THEN "WAITING"
    ELSE IF EndsWith(event.resource_status, "ROLLBACK_COMPLETE") THEN "FAILED"
    ELSE IF EndsWith(event.resource_status, "ROLLBACK_FAILED") THEN "FAILED"
    ELSE "WAITING"

Classify(event) ==
    IF /\ event.same_object
       /\ EndsWith(event.resource_status, "CREATE_COMPLETE")
    THEN "SUCCEEDED"
    ELSE IF EndsWith(event.resource_status, "CREATE_COMPLETE") THEN "WAITING"
    ELSE IF EndsWith(event.resource_status, "CREATE_FAILED") THEN "WAITING"
    ELSE IF EndsWith(event.resource_status, "ROLLBACK_IN_PROGRESS") THEN "WAITING"
    ELSE IF EndsWith(event.resource_status, "ROLLBACK_COMPLETE") THEN "FAILED"
    ELSE IF EndsWith(event.resource_status, "ROLLBACK_FAILED") THEN "FAILED"
    ELSE "WAITING"

(***************************************************************************)
(* wait_to_complete's first two statements (lines 104-105).                *)
(***************************************************************************)
EnterWait(t) ==
    /\ timeout' = t
    /\ start' = now
    /\ seen_events' = <<>>
    /\ pc' = "while"

(***************************************************************************)
(* `return v` of wait_to_complete.  Called from create_stack, the value is *)
(* dropped (line 98 is an expression statement) and create_stack falls off *)
(* its end, returning None.                                                *)
(***************************************************************************)
\* Faulty variant: the outcome is noted and the loop goes on.
WaitReturnsAndContinues(v, s) ==
    /\ state' = s
    /\ wait_result' = v
    /\ create_result' = IF entry = "create_stack" THEN "None" ELSE create_result
    /\ UNCHANGED pc

WaitReturns(v, s) ==
    /\ state' = s
    /\ wait_result' = v
    /\ create_result' = IF entry = "create_stack" THEN "None" ELSE create_result
    /\ pc' = "done"

(***************************************************************************)
(* An exception leaves the try block of create_stack (lines 91-101): the   *)
(* except clause logs it and create_stack returns None, or it propagates.  *)
(***************************************************************************)
CreateStackExcept(exc) ==
    IF Caught(exc)
    THEN /\ logged' = TRUE
         /\ create_result' = "None"
         /\ UNCHANGED raised
    ELSE /\ raised' = exc
         /\ UNCHANGED <<logged, create_result>>

(***************************************************************************)
(* create_stack, lines 89-98, up to the call of wait_to_complete.          *)
(***************************************************************************)
CreateStack(name, parameters, provider) ==
    /\ pc = "idle"
    /\ lpc = "ready"
    /\ entry' = "create_stack"
    /\ stack_name' = name
    /\ returned_body' = t_body
    /\ submitted' = Append(submitted, [stack_name |-> name,
                                       template_body |-> JsonDumps(t_body),
                                       parameters |-> parameters])
    /\ response' = provider
    /\ IF provider = "accepted"
       THEN /\ EnterWait(DefaultTimeout)
            /\ UNCHANGED <<logged, create_result, raised>>
       ELSE /\ CreateStackExcept(provider)
            /\ pc' = "done"
            /\ UNCHANGED <<timeout, start, seen_events>>
    /\ UNCHANGED <<now, events, state, wait_result, fetched, fetches, sleeps,
                   slow, poll_error, classified, delivered, ref_state,
                   informational>>
    /\ UNCHANGED <<lpc, t_url, t_config_dir, t_body, l_url, l_raised, l_logged,
                   opened>>
    /\ UNCHANGED <<rvars, cvars>>

(***************************************************************************)
(* A direct call of wait_to_complete(stack_name, timeout).                 *)
(***************************************************************************)
WaitToComplete(name, t) ==
    /\ pc = "idle"
    /\ entry' = "wait_to_complete"
    /\ stack_name' = name
    /\ EnterWait(t)
    /\ UNCHANGED <<submitted, now, events, state, wait_result, create_result,
                   raised, logged, fetched, fetches, sleeps, slow, response,
                   poll_error, classified, delivered, ref_state, informational>>
    /\ UNCHANGED <<lvars, rvars, cvars>>

(***************************************************************************)
(* Line 107, the loop test, and line 129 when it fails.                    *)
(***************************************************************************)
WhileTest ==
    /\ pc = "while"
    /\ IF WithinBudget
       THEN /\ pc' = "fetch"
            /\ UNCHANGED <<state, wait_result, create_result>>
       ELSE WaitReturns("False", "TIMED_OUT")
    /\ UNCHANGED <<entry, stack_name, submitted, timeout, start, now,
                   seen_events, events, raised, logged, fetched, fetches,
                   sleeps, slow, response, poll_error, classified, delivered,
                   ref_state, informational>>
    /\ UNCHANGED <<lvars, rvars, cvars>>

(***************************************************************************)
(* The statuses the loop only reports: CREATE_FAILED, ROLLBACK_IN_PROGRESS,*)
(* CREATE_COMPLETE of a resource other than the stack, and any status      *)
(* outside the chain.                                                      *)
(***************************************************************************)
Informational(event) ==
    \/ EndsWith(event.resource_status, "CREATE_FAILED")
    \/ EndsWith(event.resource_status, "ROLLBACK_IN_PROGRESS")
    \/ /\ EndsWith(event.resource_status, "CREATE_COMPLETE")
       /\ event.resource_type # Sentinel
    \/ /\ ~EndsWith(event.resource_status, "CREATE_COMPLETE")
       /\ ~EndsWith(event.resource_status, "ROLLBACK_COMPLETE")
       /\ ~EndsWith(event.resource_status, "ROLLBACK_FAILED")

InformationalEvents == { e \in Events : Informational(e) }

(***************************************************************************)
(* Line 108: the argument of describe_stack_events, the stack_name         *)
(* parameter of wait_to_complete.                                          *)
(***************************************************************************)
\* Faulty variant: the template's locator is passed.
FetchNameOfTemplate == t_url

FetchName == stack_name

(***************************************************************************)
(* Line 110: seen_events.append(event.event_id)                            *)
(***************************************************************************)
\* Faulty variant: the id is not kept.
RememberNothing(event) == seen_events

Remember(event) == Append(seen_events, event.event_id)

(***************************************************************************)
(* Line 108: the loop variable of `for event in ...`, the next event of    *)
(* the fetched list in list order.                                         *)
(***************************************************************************)
\* Faulty variant: the list is walked from its end.
LoopEventFromEnd == events[Len(events)]

LoopEvent == Head(events)

(***************************************************************************)
(* Line 108: conn.describe_stack_events(stack_name) returns a list.        *)
(***************************************************************************)
DescribeStackEvents ==
    /\ pc = "fetch"
    /\ \E result \in (IF fetches < MaxEventfulFetches THEN FetchResults ELSE {<<>>}),
          duration \in (IF slow < MaxSlowFetches THEN {0, SlowFetch} ELSE {0}) :
          /\ events' = result
          /\ now' = now + duration
          /\ slow' = IF duration > 0 THEN slow + 1 ELSE slow
          /\ informational' = (informational /\
                               Range(result) \subseteq InformationalEvents)
    /\ fetched' = fetched \cup {FetchName}
    /\ fetches' = fetches + 1
    /\ pc' = "for"
    /\ UNCHANGED <<entry, stack_name, submitted, timeout, start, seen_events,
                   state, wait_result, create_result, raised, logged, sleeps,
                   response, poll_error, classified, delivered, ref_state>>
    /\ UNCHANGED <<lvars, rvars, cvars>>

(***************************************************************************)
(* Line 108: conn.describe_stack_events(stack_name) raises.  The exception *)
(* leaves wait_to_complete; under create_stack it reaches the try block.   *)
(***************************************************************************)
DescribeStackEventsFails(exc) ==
    /\ pc = "fetch"
    /\ fetched' = fetched \cup {FetchName}
    /\ fetches' = fetches + 1
    /\ poll_error' = exc
    /\ IF entry = "create_stack"
       THEN CreateStackExcept(exc)
       ELSE /\ raised' = exc
            /\ UNCHANGED <<logged, create_result>>
    /\ pc' = "done"
    /\ UNCHANGED <<entry, stack_name, submitted, timeout, start, now,
                   seen_events, events, state, wait_result, sleeps, slow,
                   response, classified, delivered, ref_state, informational>>
    /\ UNCHANGED <<lvars, rvars, cvars>>

(***************************************************************************)
(* Lines 108-127: one iteration of the for loop.  A return leaves the      *)
(* deciding event at the head of events.  delivered and ref_state follow a *)
(* reference loop that classifies the first occurrence of every id.        *)
(***************************************************************************)
ForEvent ==
    /\ pc = "for"
    /\ events # <<>>
    /\ LET event == LoopEvent IN
       /\ delivered' = delivered \cup {event.event_id}
       /\ ref_state' = IF event.event_id \notin delivered /\ ref_state = "WAITING"
                       THEN Classify(event)
                       ELSE ref_state
       /\ IF Unseen(event)
          THEN /\ seen_events' = Remember(event)
               /\ classified' = Append(classified, event.event_id)
               /\ CASE Classify(event) = "SUCCEEDED" ->
                         /\ WaitReturns("True", "SUCCEEDED")
                         /\ UNCHANGED events
                    [] Classify(event) = "FAILED" ->
                         /\ WaitReturns("False", "FAILED")
                         /\ UNCHANGED events
                    [] OTHER ->
                         /\ events' = Tail(events)
                         /\ UNCHANGED <<pc, state, wait_result, create_result>>
          ELSE /\ events' = Tail(events)
               /\ UNCHANGED <<pc, seen_events, classified, state, wait_result,
                              create_result>>
    /\ UNCHANGED <<entry, stack_name, submitted, timeout, start, now, raised,
                   logged, fetched, fetches, sleeps, slow, response, poll_error,
                   informational>>
    /\ UNCHANGED <<lvars, rvars, cvars>>

(***************************************************************************)
(* Line 128: the for loop is exhausted, time.sleep(10).                    *)
(***************************************************************************)
\* Faulty variant: the clock stands still while the loop sleeps.
AfterSleepFrozen == now

AfterSleep == now + PollInterval

Sleep ==
    /\ pc = "for"
    /\ events = <<>>
    /\ now' = AfterSleep
    /\ sleeps' = sleeps + 1
    /\ pc' = "while"
    /\ UNCHANGED <<entry, stack_name, submitted, timeout, start, seen_events,
                   events, state, wait_result, create_result, raised, logged,
                   fetched, fetches, slow, response, poll_error, classified,
                   delivered, ref_state, informational>>
    /\ UNCHANGED <<lvars, rvars, cvars>>

Next ==
    \/ \E name \in StackNames, parameters \in ParameterSets,
          provider \in {"accepted", "BotoServerError", "OtherError"} :
          CreateStack(name, parameters, provider)
    \/ \E name \in StackNames, t \in Timeouts : WaitToComplete(name, t)
    \/ WhileTest
    \/ DescribeStackEvents
    \/ \E exc \in {"BotoServerError", "OtherError"} : DescribeStackEventsFails(exc)
    \/ ForEvent
    \/ Sleep

Spec == Init /\ [][Next]_vars

(***************************************************************************)
(* The template loader, CloudFormationTemplate.                            *)
(***************************************************************************)
Urls == {"/srv/web.json", "/srv/bad.json", "/srv/missing.json",
         "web.json", "bad.json", "missing.json",
         "s3://bucket/web.json", "S3://bucket/web.json"}
ConfigDirs == {"None", "/etc/cfn", "/srv/"}
Bodies == {"None", "{}", "{\"a\":1}"}

\* The files open() finds, with their content.
FileSystem ==
    ("/srv/web.json" :> "{\"a\": 1}") @@
    ("/srv/bad.json" :> "{\"a\": 1") @@
    ("/etc/cfn/web.json" :> "[1, {\"b\": \"x\"}]") @@
    ("/etc/cfn/bad.json" :> "{\"a\" 1}") @@
    ("web.json" :> " {} ") @@
    ("bad.json" :> "[1,]")

\* Attributes of the exception objects the try block of _fs_get_template
\* can catch: IOError carries strerror, ValueError does not.
ExceptionAttributes(exc) ==
    IF exc = "IOError" THEN {"args", "errno", "strerror", "filename"}
    ELSE {"args"}

LoaderIdle ==
    /\ lpc = "idle"
    /\ t_url = "None"
    /\ t_config_dir = "None"
    /\ t_body = "None"
    /\ l_url = "None"
    /\ l_raised = "none"
    /\ l_logged = "none"
    /\ opened = <<>>
    /\ returned_body = "None"

InitLoader == InitProvisioner /\ LoaderIdle /\ RegistryIdle /\ ThreadsIdle

(***************************************************************************)
(* __init__, lines 13-23.                                                  *)
(***************************************************************************)
Construct(url, body, config_dir) ==
    /\ lpc = "idle"
    /\ t_config_dir' = config_dir
    /\ t_url' = url
    /\ t_body' = body
    /\ lpc' = IF ~Truthy(body) THEN "load" ELSE "ready"
    /\ UNCHANGED <<l_url, l_raised, l_logged, opened, returned_body>>
    /\ UNCHANGED <<pvars, rvars, cvars>>

(***************************************************************************)
(* _load_template, lines 29-34; _s3_get_template, lines 51-52.             *)
(***************************************************************************)
LoadTemplate ==
    /\ lpc = "load"
    /\ IF StartsWith(Lower(t_url), "s3://")
       THEN /\ l_raised' = "NotImplementedError"
            /\ lpc' = "raised"
            /\ UNCHANGED l_url
       ELSE /\ l_url' = t_url
            /\ lpc' = "fs"
            /\ UNCHANGED l_raised
    /\ UNCHANGED <<t_url, t_config_dir, t_body, l_logged, opened, returned_body>>
    /\ UNCHANGED <<pvars, rvars, cvars>>

(***************************************************************************)
(* _fs_get_template, lines 37-38.                                          *)
(***************************************************************************)
FsResolve ==
    /\ lpc = "fs"
    /\ l_url' = IF ~IsAbs(l_url) /\ Truthy(t_config_dir)
                THEN PathJoin(t_config_dir, l_url)
                ELSE l_url
    /\ lpc' = "open"
    /\ UNCHANGED <<t_url, t_config_dir, t_body, l_raised, l_logged, opened,
                   returned_body>>
    /\ UNCHANGED <<pvars, rvars, cvars>>

(***************************************************************************)
(* The except clauses of _fs_get_template, lines 43-49: format the message *)
(* with e.strerror, log it, re-raise.  Reading an attribute the exception  *)
(* does not have raises AttributeError before anything is logged.          *)
(***************************************************************************)
FsExcept(exc) ==
    /\ IF "strerror" \in ExceptionAttributes(exc)
       THEN /\ l_logged' = l_url
            /\ l_raised' = exc
       ELSE /\ l_raised' = "AttributeError"
            /\ UNCHANGED l_logged
    /\ lpc' = "raised"
    /\ UNCHANGED t_body

(***************************************************************************)
(* _fs_get_template, lines 40-49, and the assignment of line 24.           *)
(***************************************************************************)
FsRead ==
    /\ lpc = "open"
    /\ opened' = Append(opened, l_url)
    /\ IF l_url \notin DOMAIN FileSystem
       THEN FsExcept("IOError")
       ELSE LET parsed == JsonLoads(FileSystem[l_url]) IN
            IF parsed.ok
            THEN /\ t_body' = parsed.doc
                 /\ lpc' = "ready"
                 /\ UNCHANGED <<l_raised, l_logged>>
            ELSE FsExcept("ValueError")
    /\ UNCHANGED <<t_url, t_config_dir, l_url, returned_body>>
    /\ UNCHANGED <<pvars, rvars, cvars>>

(***************************************************************************)
(* get_template_body, lines 26-27.                                         *)
(***************************************************************************)
GetTemplateBody ==
    /\ lpc = "ready"
    /\ returned_body' = t_body
    /\ UNCHANGED <<lpc, t_url, t_config_dir, t_body, l_url, l_raised, l_logged,
                   opened>>
    /\ UNCHANGED <<pvars, rvars, cvars>>

NextLoader ==
    \/ \E url \in Urls, body \in Bodies, config_dir \in ConfigDirs :
          Construct(url, body, config_dir)
    \/ LoadTemplate
    \/ FsResolve
    \/ FsRead
    \/ GetTemplateBody

SpecLoader == InitLoader /\ [][NextLoader]_vars

(***************************************************************************)
(* The stack registry: CloudFormation.stacks and get_stacks_dict.          *)
(***************************************************************************)
RegistryNames == {"web", "db", "cache"}
RegistryParameters == { <<>>, <<"Env", "prod">> }
RegistryOutputs == { <<>>, <<"Url", "http://web">> }

\* The stacks of the provider: boto Stack objects.
Stacks ==
    [stack_name : RegistryNames, parameters : RegistryParameters,
     outputs : RegistryOutputs]

\* What describe_stacks can return: the provider knows one stack per name.
StackSequences ==
    { s \in UNION { [1..n -> Stacks] : n \in 0..MaxStacks } :
        \A i, j \in 1..Len(s) : s[i].stack_name = s[j].stack_name => i = j }

\* After CloudFormation.__init__ (lines 70-74): self.stacks is loaded.
RegistryLoaded ==
    /\ stacks \in StackSequences
    /\ rpc = "idle"
    /\ r_iter = <<>>
    /\ stacks_dict = <<>>

InitRegistry ==
    InitProvisioner /\ TemplateGiven /\ RegistryLoaded /\ ThreadsIdle

\* Line 86, the value stored for one stack.
\* Faulty variant: the two attributes are swapped.
StackEntrySwapped(stack) ==
    [parameters |-> stack.outputs, outputs |-> stack.parameters]

StackEntry(stack) ==
    [parameters |-> stack.parameters, outputs |-> stack.outputs]

\* Lines 84-85: stacks_dict = {} and the for loop starts on self.stacks.
GetStacksDict ==
    /\ rpc \in {"idle", "done"}
    /\ stacks_dict' = <<>>
    /\ r_iter' = stacks
    /\ rpc' = "loop"
    /\ UNCHANGED stacks
    /\ UNCHANGED <<pvars, lvars, cvars>>

\* Lines 85-86: one iteration, stacks_dict[stack.stack_name] = {...}.
GetStacksDictFor ==
    /\ rpc = "loop"
    /\ r_iter # <<>>
    /\ LET stack == Head(r_iter) IN
       stacks_dict' =
           [n \in DOMAIN stacks_dict \cup {stack.stack_name} |->
               IF n = stack.stack_name THEN StackEntry(stack)
                                       ELSE stacks_dict[n]]
    /\ r_iter' = Tail(r_iter)
    /\ UNCHANGED <<stacks, rpc>>
    /\ UNCHANGED <<pvars, lvars, cvars>>

\* Line 87: return stacks_dict.
GetStacksDictReturn ==
    /\ rpc = "loop"
    /\ r_iter = <<>>
    /\ rpc' = "done"
    /\ UNCHANGED <<stacks, r_iter, stacks_dict>>
    /\ UNCHANGED <<pvars, lvars, cvars>>

NextRegistry ==
    \/ GetStacksDict
    \/ GetStacksDictFor
    \/ GetStacksDictReturn

SpecRegistry == InitRegistry /\ [][NextRegistry]_vars

(***************************************************************************)
(* Two invocations of create_stack / wait_to_complete on one CloudFormation*)
(* object, one per thread and stack, their steps interleaved.  The threads *)
(* read one clock; each has its own frame of arguments and locals.         *)
(***************************************************************************)
ConcurrentEvents ==
    { e \in Events :
        /\ e.resource_status \in {"CREATE_COMPLETE", "ROLLBACK_COMPLETE"}
        /\ e.same_object = (e.resource_type = Sentinel) }

ConcurrentFetchResults == {<<>>} \cup { <<e>> : e \in ConcurrentEvents }

\* Line 104: seen_events = [] makes a list object of the invocation's own.
\* Faulty variant: one list object serves every invocation.
NewListShared(i) == 1

NewList(i) == i

\* Lines 104-105 in invocation i.
ThreadEnterWait(i, t) ==
    /\ frames' = [frames EXCEPT ![i].timeout = t,
                                ![i].start = c_now,
                                ![i].seen_ref = NewList(i),
                                ![i].pc = "while"]
    /\ seen_lists' = [seen_lists EXCEPT ![NewList(i)] = <<>>]

\* create_stack in invocation i, lines 89-101: the request is accepted and
\* the wait starts, or BotoServerError is logged and the call returns.
ThreadCreateStack(i, provider) ==
    /\ frames[i].pc = "idle"
    /\ IF provider = "accepted"
       THEN ThreadEnterWait(i, DefaultTimeout)
       ELSE /\ frames' = [frames EXCEPT ![i].pc = "done"]
            /\ UNCHANGED seen_lists
    /\ UNCHANGED c_now
    /\ UNCHANGED <<pvars, lvars, rvars>>

\* A direct call of wait_to_complete in invocation i.
ThreadWaitToComplete(i, t) ==
    /\ frames[i].pc = "idle"
    /\ ThreadEnterWait(i, t)
    /\ UNCHANGED c_now
    /\ UNCHANGED <<pvars, lvars, rvars>>

\* Line 107 in invocation i, and line 129 when the test fails.
ThreadWhileTest(i) ==
    /\ frames[i].pc = "while"
    /\ frames' = IF c_now < frames[i].start + frames[i].timeout
                 THEN [frames EXCEPT ![i].pc = "fetch"]
                 ELSE [frames EXCEPT ![i].pc = "done",
                                     ![i].state = "TIMED_OUT"]
    /\ UNCHANGED <<seen_lists, c_now>>
    /\ UNCHANGED <<pvars, lvars, rvars>>

\* Line 108 in invocation i: the events of its stack are fetched.
ThreadDescribeStackEvents(i) ==
    /\ frames[i].pc = "fetch"
    /\ \E result \in ConcurrentFetchResults :
          frames' = [frames EXCEPT ![i].events = result, ![i].pc = "for"]
    /\ UNCHANGED <<seen_lists, c_now>>
    /\ UNCHANGED <<pvars, lvars, rvars>>

\* Lines 108-127 in invocation i: one iteration of the for loop.
ThreadForEvent(i) ==
    /\ frames[i].pc = "for"
    /\ frames[i].events # <<>>
    /\ LET event == Head(frames[i].events)
           ref == frames[i].seen_ref
           ghost == [frames EXCEPT
                        ![i].delivered = @ \cup {event.event_id},
                        ![i].ref_state =
                            IF /\ event.event_id \notin frames[i].delivered
                               /\ @ = "WAITING"
                            THEN Classify(event) ELSE @]
       IN IF event.event_id \notin Range(seen_lists[ref])
          THEN /\ seen_lists' =
                      [seen_lists EXCEPT ![ref] = Append(@, event.event_id)]
               /\ frames' =
                      IF Classify(event) = "WAITING"
                      THEN [ghost EXCEPT ![i].events = Tail(@)]
                      ELSE [ghost EXCEPT ![i].state = Classify(event),
                                         ![i].pc = "done"]
          ELSE /\ frames' = [ghost EXCEPT ![i].events = Tail(@)]
               /\ UNCHANGED seen_lists
    /\ UNCHANGED c_now
    /\ UNCHANGED <<pvars, lvars, rvars>>

\* Line 128 in invocation i: time.sleep(10) begins.
ThreadSleep(i) ==
    /\ frames[i].pc = "for"
    /\ frames[i].events = <<>>
    /\ frames' = [frames EXCEPT ![i].wake = c_now + PollInterval,
                                ![i].pc = "sleep"]
    /\ UNCHANGED <<seen_lists, c_now>>
    /\ UNCHANGED <<pvars, lvars, rvars>>

\* Line 128 in invocation i: time.sleep(10) ends, not before its time.
ThreadWake(i) ==
    /\ frames[i].pc = "sleep"
    /\ c_now >= frames[i].wake
    /\ frames' = [frames EXCEPT ![i].pc = "while"]
    /\ UNCHANGED <<seen_lists, c_now>>
    /\ UNCHANGED <<pvars, lvars, rvars>>

\* time.time() moves on while the threads run or sleep.
Tick ==
    /\ c_now < MaxClock
    /\ c_now' = c_now + ClockStep
    /\ UNCHANGED <<frames, seen_lists>>
    /\ UNCHANGED <<pvars, lvars, rvars>>

NextConcurrent ==
    \/ \E i \in Invocations, provider \in {"accepted", "BotoServerError"} :
          ThreadCreateStack(i, provider)
    \/ \E i \in Invocations, t \in Timeouts : ThreadWaitToComplete(i, t)
    \/ \E i \in Invocations : ThreadWhileTest(i)
    \/ \E i \in Invocations : ThreadDescribeStackEvents(i)
    \/ \E i \in Invocations : ThreadForEvent(i)
    \/ \E i \in Invocations : ThreadSleep(i)
    \/ \E i \in Invocations : ThreadWake(i)
    \/ Tick

SpecConcurrent == Init /\ [][NextConcurrent]_vars

(***************************************************************************)
(* Properties.                                                             *)
(***************************************************************************)

\* C1: for every accepted create request whose completion loop has returned,
\* the value create_stack returns equals the boolean wait_to_complete
\* returned (success for SUCCEEDED, failure for FAILED and TIMED_OUT).
C1_CreateReturnsLoopResult ==
    (entry = "create_stack" /\ wait_result # "pending")
        => create_result = wait_result

\* C2: when the for loop reaches a not yet seen event whose resource type is
\* AWS::CloudFormation::Stack and whose status ends in CREATE_COMPLETE, that
\* step moves the loop to SUCCEEDED and returns True, with no further fetch
\* and no sleep.
C2_SentinelCompleteSucceedsAtOnce ==
    [][ (/\ pc = "for"
         /\ events # <<>>
         /\ Head(events).event_id \notin Range(seen_events)
         /\ Head(events).resource_type = Sentinel
         /\ EndsWith(Head(events).resource_status, "CREATE_COMPLETE"))
        => (/\ state' = "SUCCEEDED"
            /\ wait_result' = "True"
            /\ pc' = "done"
            /\ fetches' = fetches
            /\ sleeps' = sleeps) ]_vars

\* C3: when the provider rejects the create request, create_stack has
\* returned a value that is not success (None), nothing was raised to the
\* caller, and the completion loop was never entered: no
\* describe_stack_events call and no sleep happened.
C3_RejectedCreateFailsWithoutPolling ==
    response = "BotoServerError"
        => /\ pc = "done"
           /\ raised = "none"
           /\ create_result = "None"
           /\ logged
           /\ wait_result = "pending"
           /\ state = "WAITING"
           /\ fetches = 0
           /\ fetched = {}
           /\ sleeps = 0
           /\ seen_events = <<>>

C3_Witness ==
    /\ response = "BotoServerError"
    /\ pc = "done"
    /\ Len(submitted) = 1
    /\ create_result = "None"

\* C4: a not yet seen event whose status ends in ROLLBACK_COMPLETE or
\* ROLLBACK_FAILED, of any resource type, makes wait_to_complete return
\* False (FAILED) in the step that processes it: only its own id is marked
\* seen, the later events of the fetch stay unprocessed, and the call takes
\* no step afterwards (no fetch, no sleep, no classification).
C4_RollbackEndsLoopAtOnce ==
    [][ /\ pc # "done"
        /\ (/\ pc = "for"
            /\ events # <<>>
            /\ Head(events).event_id \notin Range(seen_events)
            /\ \/ EndsWith(Head(events).resource_status, "ROLLBACK_COMPLETE")
               \/ EndsWith(Head(events).resource_status, "ROLLBACK_FAILED"))
           => (/\ state' = "FAILED"
               /\ wait_result' = "False"
               /\ pc' = "done"
               /\ seen_events' = Append(seen_events, Head(events).event_id)
               /\ classified' = Append(classified, Head(events).event_id)
               /\ events' = events
               /\ fetches' = fetches
               /\ sleeps' = sleeps) ]_vars

C4_Witness ==
    /\ state = "FAILED"
    /\ pc = "done"
    /\ Len(events) >= 2
    /\ events[2].same_object
    /\ EndsWith(events[2].resource_status, "CREATE_COMPLETE")
    /\ events[2].event_id \notin Range(seen_events)

\* C5: the loop does one fetch and one sleep per cycle; it returns TIMED_OUT
\* (False) only once the elapsed time has reached the timeout, and with the
\* timeout of 600, the poll interval of 10 and provider calls that take no
\* time it has then done exactly 60 fetches and 60 sleeps.
C5_TimeoutAfterBudget ==
    /\ pc \in {"while", "fetch"} => fetches = sleeps
    /\ pc = "for" => fetches = sleeps + 1
    /\ state = "TIMED_OUT"
           => /\ wait_result = "False"
              /\ now - start >= timeout
              /\ fetches = sleeps
              /\ (timeout = 600 /\ PollInterval = 10 /\ slow = 0)
                     => (fetches = 60 /\ sleeps = 60)

C5_Witness ==
    /\ state = "TIMED_OUT"
    /\ timeout = 600
    /\ slow = 0
    /\ fetches = 60
    /\ sleeps = 60

\* C6: an event whose id is already in seen_events is skipped: it changes
\* neither the loop state, the result nor seen_events and is not classified;
\* no id is classified twice; and the loop state always equals the state of
\* a loop that is fed only the first occurrence of every id.
C6_SeenEventsAreSkipped ==
    [][ /\ (/\ pc = "for"
            /\ events # <<>>
            /\ Head(events).event_id \in Range(seen_events))
           => (/\ state' = state
               /\ wait_result' = wait_result
               /\ pc' = pc
               /\ seen_events' = seen_events
               /\ classified' = classified
               /\ events' = Tail(events))
        /\ \A i, j \in 1..Len(classified') :
               classified'[i] = classified'[j] => i = j
        /\ ref_state' = (IF state' = "TIMED_OUT" THEN "WAITING" ELSE state')
      ]_vars

C6_Witness ==
    /\ pc = "for"
    /\ state = "WAITING"
    /\ fetches >= 2
    /\ events # <<>>
    /\ Head(events).event_id \in Range(seen_events)
    /\ Classify(Head(events)) = "SUCCEEDED"

\* C7: wait_to_complete turns to SUCCEEDED / returns True only in a step
\* that processes an event of type AWS::CloudFormation::Stack with a status
\* ending in CREATE_COMPLETE; a CREATE_COMPLETE event of another resource
\* type leaves the loop WAITING and running.
C7_SuccessOnlyBySentinelComplete ==
    [][ /\ (state' = "SUCCEEDED" \/ wait_result' = "True")
           => (/\ pc = "for"
               /\ events # <<>>
               /\ Head(events).resource_type = Sentinel
               /\ EndsWith(Head(events).resource_status, "CREATE_COMPLETE")
               /\ events' = events
               /\ state' = "SUCCEEDED"
               /\ wait_result' = "True")
        /\ (/\ pc = "for"
            /\ events # <<>>
            /\ Head(events).resource_type # Sentinel
            /\ EndsWith(Head(events).resource_status, "CREATE_COMPLETE"))
           => (/\ state' = "WAITING"
               /\ wait_result' = "pending"
               /\ pc' = "for") ]_vars

C7_Witness ==
    /\ state = "SUCCEEDED"
    /\ wait_result = "True"
    /\ Len(seen_events) = 2
    /\ Head(events).resource_type = Sentinel

\* C8: as long as every event fetched has a status ending in CREATE_FAILED
\* or ROLLBACK_IN_PROGRESS, an unrecognized status, or is a CREATE_COMPLETE
\* of a resource other than the stack, the loop is WAITING or TIMED_OUT, and
\* when wait_to_complete has returned it returned False by timeout, the
\* elapsed time having reached the timeout.
C8_InformationalEventsNeverEndLoop ==
    informational
        => /\ state \in {"WAITING", "TIMED_OUT"}
           /\ wait_result # "pending"
                  => /\ state = "TIMED_OUT"
                     /\ wait_result = "False"
                     /\ now - start >= timeout
           /\ (pc = "done" /\ poll_error = "none" /\ response \in {"none", "accepted"})
                  => state = "TIMED_OUT"

C8_Witness ==
    /\ informational
    /\ state = "TIMED_OUT"
    /\ Len(classified) = 2
    /\ timeout = 600

\* C9 as stated: an exception raised by describe_stack_events under
\* create_stack propagates to the caller of create_stack, and is not turned
\* into a logged failure outcome.
C9_PollFailurePropagates ==
    (entry = "create_stack" /\ poll_error # "none")
        => /\ raised = poll_error
           /\ ~logged
           /\ create_result = "pending"

\* C9 as amended: an exception raised by describe_stack_events under
\* create_stack aborts the loop (no loop result); a BotoServerError is
\* caught by the except clause of create_stack, logged, and create_stack
\* returns None without raising; any other exception propagates to the
\* caller of create_stack, unlogged.
C9_PollFailureCaughtIfBotoServerError ==
    (entry = "create_stack" /\ poll_error # "none")
        => /\ pc = "done"
           /\ wait_result = "pending"
           /\ state = "WAITING"
           /\ IF poll_error = "BotoServerError"
              THEN raised = "none" /\ logged /\ create_result = "None"
              ELSE raised = poll_error /\ ~logged /\ create_result = "pending"

C9_Witness ==
    /\ entry = "create_stack"
    /\ poll_error = "BotoServerError"
    /\ response = "accepted"
    /\ sleeps >= 1
    /\ pc = "done"

\* C10: when the file a template is loaded from does not hold a valid JSON
\* document, the constructor ends with the parser's ValueError propagated
\* to the caller, after an error message naming the path was logged, and no
\* body was assigned.
C10_ParseErrorPropagates ==
    (/\ lpc \in {"raised", "ready"}
     /\ opened # <<>>
     /\ opened[Len(opened)] \in DOMAIN FileSystem
     /\ ~JsonLoads(FileSystem[opened[Len(opened)]]).ok)
        => /\ lpc = "raised"
           /\ l_raised = "ValueError"
           /\ l_logged = opened[Len(opened)]
           /\ ~Truthy(t_body)


\* C11: for a locator with the s3:// scheme, in any letter case, the
\* constructor never reaches the filesystem steps (no path is resolved, no
\* file is opened, nothing is logged), with or without a config_dir; a load
\* of it ends in NotImplementedError.
C11_S3LocatorUnsupported ==
    (/\ lpc # "idle"
     /\ StartsWith(t_url, "s3://") \/ StartsWith(t_url, "S3://"))
        => /\ opened = <<>>
           /\ l_url = "None"
           /\ l_logged = "none"
           /\ lpc \in {"load", "raised", "ready"}
           /\ lpc = "raised" => l_raised = "NotImplementedError"
           /\ lpc = "ready" => Truthy(t_body)

C11_Witness ==
    /\ lpc = "raised"
    /\ l_raised = "NotImplementedError"
    /\ t_url = "S3://bucket/web.json"
    /\ t_config_dir = "/etc/cfn"
    /\ opened = <<>>

\* C12: a template body is loaded at most once and, once a body is there
\* (supplied by the caller or loaded), no file is opened and the body is
\* never assigned again.
C12_BodyLoadedOnceNeverChanged ==
    [][ /\ Len(opened') <= 1
        /\ (lpc # "idle" /\ t_body # "None")
               => (t_body' = t_body /\ opened' = opened) ]_vars


\* C16: the loop state is one of WAITING, SUCCEEDED, FAILED, TIMED_OUT; it
\* changes only away from WAITING, in the step that returns the one outcome
\* (True exactly for SUCCEEDED); once it is terminal no fetch, sleep,
\* classification or other step of the loop happens.  (A call whose fetch
\* raises stays WAITING and returns no outcome at all.)
C16_TerminalStatesAbsorb ==
    [][ /\ state' \in {"WAITING", "SUCCEEDED", "FAILED", "TIMED_OUT"}
        /\ (state' # "WAITING") = (wait_result' # "pending")
        /\ state' # state
               => /\ state = "WAITING"
                  /\ wait_result = "pending"
                  /\ pc' = "done"
                  /\ wait_result' = IF state' = "SUCCEEDED" THEN "True"
                                                            ELSE "False"
        /\ state # "WAITING"
               => UNCHANGED <<state, wait_result, pc, fetches, sleeps, events,
                              seen_events, classified, now>> ]_vars

C16_Witness ==
    /\ pc = "done"
    /\ state = "FAILED"
    /\ wait_result = "False"
    /\ fetches = 2
    /\ Len(events) = 2

\* C17: create_stack submits one create request, for its stack_name, before
\* any fetch, and never a second one; events are fetched only after the
\* provider has accepted the request, only for the submitted name, and the
\* wait then runs with the timeout 600.
C17_OneRequestThenFetchesOfThatStack ==
    [][ /\ entry' = "create_stack"
               => /\ Len(submitted') = 1
                  /\ submitted'[1].stack_name = stack_name'
                  /\ fetched' \subseteq {submitted'[1].stack_name}
                  /\ fetches' > 0 => (response' = "accepted" /\
                                      timeout' = DefaultTimeout)
                  /\ response' # "accepted" => (fetches' = 0 /\ pc' = "done")
        /\ submitted' # submitted => (fetches = 0 /\ fetches' = 0 /\
                                      submitted = <<>>)
        /\ fetches' # fetches => submitted' = submitted ]_vars

C17_Witness ==
    /\ entry = "create_stack"
    /\ response = "accepted"
    /\ Len(submitted) = 1
    /\ fetches >= 2
    /\ fetched = {submitted[1].stack_name}
    /\ timeout = DefaultTimeout

\* C18: seen_events is empty when the loop starts, a step only appends to
\* it, it never holds an id twice, and it holds exactly the ids that were
\* classified, in the order of their classification.
C18_SeenEventsGrowOnly ==
    [][ /\ pc = "idle" => seen_events' = <<>>
        /\ Len(seen_events') >= Len(seen_events)
        /\ SubSeq(seen_events', 1, Len(seen_events)) = seen_events
        /\ Cardinality(Range(seen_events')) = Len(seen_events')
        /\ seen_events' = classified'
        /\ classified' # classified
               => /\ pc = "for" /\ events # <<>>
                  /\ Head(events).event_id \notin Range(seen_events)
                  /\ seen_events' = Append(seen_events, Head(events).event_id)
      ]_vars

C18_Witness ==
    /\ Len(seen_events) = 2
    /\ seen_events = classified
    /\ sleeps >= 1
    /\ pc = "for"
    /\ events # <<>>
    /\ Head(events).event_id \in Range(seen_events)
    /\ state = "WAITING"

\* C19: the events of a fetch are taken in the order of the fetched list:
\* every step of the for loop handles the first event not yet handled, and
\* the first unseen event that classifies as terminal decides the outcome,
\* whatever follows it in the list.
C19_EventsInDeliveredOrder ==
    [][ (pc = "for" /\ events # <<>>)
            => \/ /\ events' = Tail(events)
                  /\ state' = "WAITING"
                  /\ pc' = "for"
                  /\ \/ /\ Head(events).event_id \in Range(seen_events)
                        /\ seen_events' = seen_events
                     \/ /\ Head(events).event_id \notin Range(seen_events)
                        /\ Classify(Head(events)) = "WAITING"
                        /\ seen_events' =
                               Append(seen_events, Head(events).event_id)
               \/ /\ events' = events
                  /\ pc' = "done"
                  /\ Head(events).event_id \notin Range(seen_events)
                  /\ state' = Classify(Head(events))
                  /\ state' # "WAITING"
                  /\ seen_events' =
                         Append(seen_events, Head(events).event_id) ]_vars

C19_Witness ==
    /\ pc = "done"
    /\ state = "SUCCEEDED"
    /\ Len(events) = 2
    /\ events[2].event_id \notin Range(seen_events)
    /\ Classify(events[2]) = "FAILED"

\* C20: a fetch is made only while the time since the start is below the
\* timeout; with a timeout of zero or less the call makes no fetch and no
\* sleep and returns False; a call that timed out has classified no
\* terminal event and fetches nothing afterwards.
C20_FetchOnlyWithinBudget ==
    [][ /\ fetches' # fetches => (now - start < timeout /\ state = "WAITING")
        /\ (entry' = "wait_to_complete" /\ timeout' <= 0)
               => /\ fetches' = 0
                  /\ sleeps' = 0
                  /\ events' = <<>>
                  /\ pc' \in {"while", "done"}
                  /\ pc' = "done" => (wait_result' = "False" /\
                                      state' = "TIMED_OUT")
        /\ state' = "TIMED_OUT"
               => /\ ref_state' = "WAITING"
                  /\ events' = <<>>
                  /\ now' - start' >= timeout'
                  /\ fetches' = fetches ]_vars

C20_Witness ==
    /\ entry = "wait_to_complete"
    /\ timeout = -10
    /\ pc = "done"
    /\ state = "TIMED_OUT"
    /\ wait_result = "False"
    /\ fetches = 0
    /\ sleeps = 0


\* C15: a running wait_to_complete returns, whatever events it fetches:
\* while it has not returned, a step that does not raise can always be
\* taken (the loop test, a fetch that returns, the next event, the sleep);
\* the events of one fetch are used up one per step; every sleep moves the
\* clock on by the poll interval; and a fetch is made only while the sleeps
\* so far fit into the timeout, so the rounds are at most timeout / 10.
C15_WaitTerminates ==
    /\ [](/\ pc = "while" => ENABLED WhileTest
          /\ pc = "fetch" => ENABLED DescribeStackEvents
          /\ pc = "for" => IF events = <<>> THEN ENABLED Sleep
                                            ELSE ENABLED ForEvent)
    /\ [][ /\ sleeps' # sleeps => now' >= now + PollInterval
           /\ now' >= now
           /\ fetches' # fetches => sleeps * PollInterval < timeout
           /\ pc' \in {"while", "fetch", "for"}
                  => sleeps' * PollInterval <= now' - start'
           /\ (pc = "for" /\ pc' = "for") => Len(events') < Len(events)
           /\ (pc = "for" /\ pc' = "while") => sleeps' = sleeps + 1
           /\ pc = "while" => pc' \in {"fetch", "done"}
           /\ pc = "fetch" => (pc' = "for" \/ poll_error' # "none")
           /\ (pc \in {"while", "for"} /\ pc' = "done") => state' # "WAITING"
         ]_vars

C15_Witness ==
    /\ entry = "wait_to_complete"
    /\ state = "TIMED_OUT"
    /\ informational
    /\ Len(classified) = 2
    /\ timeout = 20
    /\ sleeps = 2


\* C13: get_stacks_dict leaves self.stacks and every stack as they are, and
\* what it returns has exactly one entry per stack of self.stacks, under
\* the stack's name, holding that stack's parameters and outputs as they
\* are.
C13_StacksDictIsProjection ==
    [][ /\ stacks' = stacks
        /\ rpc' = "done"
               => /\ DOMAIN stacks_dict' =
                         { stacks[i].stack_name : i \in 1..Len(stacks) }
                  /\ Cardinality(DOMAIN stacks_dict') = Len(stacks)
                  /\ \A i \in 1..Len(stacks) :
                         /\ DOMAIN stacks_dict'[stacks[i].stack_name] =
                                {"parameters", "outputs"}
                         /\ stacks_dict'[stacks[i].stack_name].parameters =
                                stacks[i].parameters
                         /\ stacks_dict'[stacks[i].stack_name].outputs =
                                stacks[i].outputs ]_vars

C13_Witness ==
    /\ rpc = "done"
    /\ Len(stacks) = 2
    /\ stacks[1].parameters # stacks[1].outputs
    /\ stacks[2].outputs # <<>>
    /\ DOMAIN stacks_dict = {stacks[1].stack_name, stacks[2].stack_name}


\* C14: with two invocations for different stacks interleaved, a step that
\* leaves an invocation's frame alone leaves its seen_events list alone, no
\* two invocations refer to one list, each list holds exactly the ids of
\* the events fetched for and iterated over by its own invocation, and each
\* outcome is the one a loop running alone on those events arrives at.
C14_InvocationsAreIndependent ==
    [][ /\ frames'[1] = frames[1] \/ frames'[2] = frames[2]
        /\ \A i \in Invocations :
              /\ frames'[i] = frames[i]
                     => seen_lists'[frames'[i].seen_ref] =
                            seen_lists[frames[i].seen_ref]
              /\ \A j \in Invocations \ {i} :
                     frames'[i].seen_ref # 0
                         => frames'[i].seen_ref # frames'[j].seen_ref
              /\ Range(seen_lists'[frames'[i].seen_ref]) =
                     frames'[i].delivered
              /\ frames'[i].state \in {frames'[i].ref_state, "TIMED_OUT"}
              /\ frames'[i].state = "TIMED_OUT"
                     => frames'[i].ref_state = "WAITING" ]_vars

C14_Witness ==
    /\ frames[1].state = "SUCCEEDED"
    /\ frames[2].state = "FAILED"
    /\ Len(seen_lists[frames[2].seen_ref]) = 2
    /\ Range(seen_lists[frames[1].seen_ref]) \subseteq
           Range(seen_lists[frames[2].seen_ref])
    /\ frames[1].seen_ref # 0
    /\ frames[1].start < frames[2].start

====
